---- MODULE Spec2Model ----
(***************************************************************************)
(* Model of src/bot.py: a Telegram relay bot keeping a per-user session    *)
(* (history, last_seen, pdf_text, image_data) in the process-wide dict     *)
(* user_context, and forwarding prompts to a streaming completion API.     *)
(*                                                                         *)
(* Every handler is a coroutine.  A handler invocation is a task whose pc  *)
(* names the await at which it is suspended; one action of the model is    *)
(* the code that runs between two suspensions.  Calls on coroutines that   *)
(* never suspend (get_user_language) are part of the surrounding segment.  *)
(* Text is modelled as a sequence of characters, bytes as a sequence of    *)
(* integers 0..255, Python's None as the empty tuple and a present value   *)
(* x as the one-element tuple <<x>>.  Time is counted in minutes.          *)
(***************************************************************************)
EXTENDS Integers, Sequences, FiniteSets, TLC

VARIABLES user_context, now, tasks, dispatched, concurrent_updates

vars == <<user_context, now, tasks, dispatched, concurrent_updates>>

-----------------------------------------------------------------------------
(* Bounds of the exploration *)

\* updates processed one after another
MaxEvents == 3

\* updates whose handlers may overlap
MaxTasks == 2

MaxClock == 11

(* Program constants *)

MAX_PDF_SIZE == 15 * 1024 * 1024

MAX_IMAGE_SIZE == 10 * 1024 * 1024

CONTEXT_TIMEOUT_MINUTES == 10

PDF_CONTEXT_CHARS == 4000

-----------------------------------------------------------------------------
(* Inputs *)

Users == {101, 202}

TickSteps == {10, 11}

Texts == { <<"h", "i">>, <<"y", "o">> }

MimeTypes == {"application/pdf", "text/plain"}

DocSizes == {MAX_PDF_SIZE, MAX_PDF_SIZE + 1}

PhotoSizes == {MAX_IMAGE_SIZE, MAX_IMAGE_SIZE + 1}

\* a PDF is the sequence of its pages' texts; the first has no text layer
Pdfs == { << <<>> >>, << <<"A", "B">>, <<"C">> >> }

\* extracted texts of documents around the length the prompt keeps: n
\* characters, those beyond the kept length being c
DocText(n, c) ==
  [k \in 1..n |-> IF k > PDF_CONTEXT_CHARS THEN c
                  ELSE IF k % 2 = 1 THEN "p" ELSE "q"]

DocTexts ==
  { DocText(n, c) :
      n \in { 1, PDF_CONTEXT_CHARS - 1, PDF_CONTEXT_CHARS,
              PDF_CONTEXT_CHARS + 1, PDF_CONTEXT_CHARS + 2 },
      c \in { "y", "z" } }

\* the bytes of a photo file
Photos == { <<255, 216>> }

\* message ids that Telegram gives to the placeholder reply
MessageIds == {501, 502}

\* token streams of the completion API; <<>> is a chunk without content
Streams == { << <<>>, <<"a">>, <<"b">> >> }

-----------------------------------------------------------------------------
(* Optional values *)

None == <<>>

Some(x) == <<x>>

IsSet(opt) == opt # None

\* Python truthiness of an optional string: None and "" are both falsy
Truthy(opt) == opt # None /\ opt[1] # <<>>

-----------------------------------------------------------------------------
(* Pure helpers *)

Take_OneMore(s, n) == SubSeq(s, 1, IF Len(s) < n + 1 THEN Len(s) ELSE n + 1)

\* the slice s[:n]
Take(s, n) == SubSeq(s, 1, IF Len(s) < n THEN Len(s) ELSE n)

RECURSIVE Concat(_)
Concat(ss) == IF ss = <<>> THEN <<>> ELSE Head(ss) \o Concat(Tail(ss))

B64Alphabet ==
  << "A","B","C","D","E","F","G","H","I","J","K","L","M","N","O","P",
     "Q","R","S","T","U","V","W","X","Y","Z","a","b","c","d","e","f",
     "g","h","i","j","k","l","m","n","o","p","q","r","s","t","u","v",
     "w","x","y","z","0","1","2","3","4","5","6","7","8","9","+","/" >>

B64Char(i) == B64Alphabet[i + 1]

RECURSIVE b64encode(_)
b64encode(bs) ==
  IF Len(bs) = 0 THEN <<>>
  ELSE IF Len(bs) = 1 THEN
    << B64Char(bs[1] \div 4), B64Char((bs[1] % 4) * 16), "=", "=" >>
  ELSE IF Len(bs) = 2 THEN
    << B64Char(bs[1] \div 4),
       B64Char((bs[1] % 4) * 16 + bs[2] \div 16),
       B64Char((bs[2] % 16) * 4), "=" >>
  ELSE
    << B64Char(bs[1] \div 4),
       B64Char((bs[1] % 4) * 16 + bs[2] \div 16),
       B64Char((bs[2] % 16) * 4 + bs[3] \div 64),
       B64Char(bs[3] % 64) >> \o b64encode(SubSeq(bs, 4, Len(bs)))

\* fitz: the text of all pages, concatenated
ExtractText(pdf) == Concat(pdf)

-----------------------------------------------------------------------------
(* Session store *)

FreshSession(t) ==
  [history |-> <<>>, last_seen |-> t, pdf_text |-> None, image_data |-> None]

PutSession(ctx, u, s) == (u :> s) @@ ctx

ResetSession_KeepsPdf(ctx, u, t) ==
  IF u \in DOMAIN ctx
    THEN [ctx EXCEPT ![u].history = <<>>, ![u].last_seen = t, ![u].image_data = None]
    ELSE ctx

\* the body of reset_command before its reply
ResetSession(ctx, u, t) ==
  IF u \in DOMAIN ctx THEN PutSession(ctx, u, FreshSession(t)) ELSE ctx

\* setdefault-style creation used by the text, document and photo handlers
EnsureSession(ctx, u, t) ==
  IF u \in DOMAIN ctx THEN ctx ELSE PutSession(ctx, u, FreshSession(t))

IsIdle_AtThreshold(ctx, u, t) ==
  u \in DOMAIN ctx /\ t - ctx[u].last_seen >= CONTEXT_TIMEOUT_MINUTES

IsIdle(ctx, u, t) ==
  u \in DOMAIN ctx /\ t - ctx[u].last_seen > CONTEXT_TIMEOUT_MINUTES

Touch(ctx, u, t) == [ctx EXCEPT ![u].last_seen = t]

StoreImage_KeepsPdf(s, b64) == [s EXCEPT !.image_data = Some(b64)]

StorePdf(s, text) == [s EXCEPT !.pdf_text = Some(text), !.image_data = None]

StoreImage(s, b64) == [s EXCEPT !.image_data = Some(b64), !.pdf_text = None]

PdfTooLarge_Inclusive(size) == size >= MAX_PDF_SIZE

PdfTooLarge(size) == size > MAX_PDF_SIZE

ImageTooLarge(size) == size > MAX_IMAGE_SIZE

HistoryOf(ctx, u) == IF u \in DOMAIN ctx THEN ctx[u].history ELSE <<>>

-----------------------------------------------------------------------------
(* Prompt assembly *)

Msg(role, content, image) == [role |-> role, content |-> content, image |-> image]

SystemInstruction == Msg("system", <<"You are a helpful assistant.">>, None)

PdfContext(pdf_text) ==
  <<"Use the following content from a PDF to answer: ">>
     \o Take(pdf_text, PDF_CONTEXT_CHARS)

ImageUrl(image_data) == <<"data:image/jpeg;base64,">> \o image_data

BuildMessages_NoDoc(s, prompt) ==
  <<SystemInstruction>> \o s.history \o
    ( IF Truthy(s.image_data)
        THEN << Msg("user", prompt, Some(ImageUrl(s.image_data[1]))) >>
      ELSE << Msg("user", prompt, None) >> )

BuildMessages(s, prompt) ==
  <<SystemInstruction>> \o s.history \o
    ( IF Truthy(s.image_data)
        THEN << Msg("user", prompt, Some(ImageUrl(s.image_data[1]))) >>
      ELSE IF Truthy(s.pdf_text)
        THEN << Msg("system", PdfContext(s.pdf_text[1]), None),
                Msg("user", prompt, None) >>
      ELSE << Msg("user", prompt, None) >> )

ConsumeImage_Keeps(s) == s

\* the image is consumed by the prompt that embeds it
ConsumeImage(s) ==
  IF Truthy(s.image_data) THEN [s EXCEPT !.image_data = None] ELSE s

AppendTurn_UserOnly(history, prompt, full_response) ==
  Append(history, Msg("user", prompt, None))

AppendTurn_Swapped(history, prompt, full_response) ==
  Append(Append(history, Msg("assistant", full_response, None)),
         Msg("user", prompt, None))

AppendTurn(history, prompt, full_response) ==
  Append(Append(history, Msg("user", prompt, None)),
         Msg("assistant", full_response, None))

-----------------------------------------------------------------------------
(* Dispatch: the handlers registered in main *)

Route(kind, mime) ==
  CASE kind = "/start" -> "start_command"
    [] kind = "/help"  -> "help_command"
    [] kind = "/reset" -> "reset_command"
    [] kind = "text"   -> "handle_text_message"
    [] kind = "document" /\ mime = "application/pdf" -> "handle_document_message"
    [] kind = "photo"  -> "handle_photo_message"
    [] OTHER -> "unhandled"

Finished(tk) == tk.pc \in {"done", "raised"}

Unfinished(tk) == ~Finished(tk)

Active == { i \in 1..Len(tasks) : ~Finished(tasks[i]) }

\* `for chunk in response` reads the stream with blocking calls on the
\* thread of the event loop: while a read does not return, no coroutine of
\* the process runs
Blocked == \E j \in 1..Len(tasks) : tasks[j].pc = "stalled"

\* handler i can be resumed by the event loop
Suspended(i) == i \in 1..Len(tasks) /\ ~Blocked

\* the record of a handler invocation; the fields from arrived to att0 keep
\* what the session was when the update arrived, att1 the attachment of the
\* session right after the handler stored one, overlap the turns of the same
\* user that were recorded while the handler was suspended, reset_seen
\* whether /start or /reset replaced the session in that time
NewTask(kind, u, text, mime, size) ==
  [ kind |-> kind, handler |-> Route(kind, mime), user_id |-> u,
    pc |-> "done", text |-> text, mime_type |-> mime, file_size |-> size,
    arrived |-> now,
    had_session |-> u \in DOMAIN user_context,
    seen0 |-> IF u \in DOMAIN user_context THEN user_context[u].last_seen ELSE 0,
    hist0 |-> HistoryOf(user_context, u),
    att0 |-> IF u \in DOMAIN user_context
               THEN <<user_context[u].pdf_text, user_context[u].image_data>>
               ELSE <<None, None>>,
    messages |-> <<>>, stream |-> <<>>, response |-> <<>>, full_response |-> <<>>,
    replies |-> <<>>, message |-> None, edits |-> <<>>,
    att1 |-> <<None, None>>,
    idle_reset |-> FALSE, stored |-> FALSE, appended |-> FALSE,
    failed_at |-> "", overlap |-> <<>>, reset_seen |-> FALSE ]

\* users differ in nothing but their id: an id is first seen only after
\* the smaller ones
KnownUsers ==
  DOMAIN user_context \cup { tasks[i].user_id : i \in 1..Len(tasks) }

\* /start, and /reset for a user who has a session, replace the session
Replaces(tk) ==
  \/ tk.handler = "start_command"
  \/ tk.handler = "reset_command" /\ tk.had_session

\* the suspended handlers of the user whose session the arriving tk replaces
\* take note of it
Noticed(ts, tk) ==
  [ j \in 1..Len(ts) |->
      IF Replaces(tk) /\ ts[j].user_id = tk.user_id
        THEN [ts[j] EXCEPT !.reset_seen = TRUE]
        ELSE ts[j] ]

\* an update is taken from the queue: returned handlers are forgotten and
\* the new invocation runs up to its first await
Arrives(u, tk) ==
  /\ ~Blocked
  /\ IF concurrent_updates
       THEN dispatched < MaxTasks
       ELSE Active = {} /\ dispatched < MaxEvents
  /\ \A v \in Users : v < u => v \in KnownUsers
  /\ tasks' = Append(Noticed(SelectSeq(tasks, Unfinished), tk), tk)
  /\ dispatched' = dispatched + 1
  /\ UNCHANGED concurrent_updates

Tick ==
  /\ \E d \in TickSteps : now + d <= MaxClock /\ now' = now + d
  /\ tasks' = SelectSeq(tasks, Unfinished)
  /\ UNCHANGED <<user_context, dispatched, concurrent_updates>>

-----------------------------------------------------------------------------
(* Task bookkeeping *)

RECURSIVE KeepFrom(_, _, _)
KeepFrom(ts, j, i) ==
  IF j > Len(ts) THEN <<>>
  ELSE (IF j = i \/ Unfinished(ts[j]) THEN <<ts[j]>> ELSE <<>>) \o KeepFrom(ts, j + 1, i)

\* the suspended handlers of the user of handler i take note of the turn
\* that handler i has just recorded
Observed(ts, i) ==
  [ j \in 1..Len(ts) |->
      IF j # i /\ ts[i].appended /\ ts[j].user_id = ts[i].user_id /\ Unfinished(ts[j])
        THEN [ts[j] EXCEPT !.overlap = Append(@, <<ts[i].text, ts[i].full_response>>)]
        ELSE ts[j] ]

\* handler i is resumed and becomes tk; handlers that returned earlier are
\* forgotten
Resumed(i, tk) == KeepFrom(Observed([tasks EXCEPT ![i] = tk], i), 1, i)

At(i, h, pc) ==
  /\ Suspended(i)
  /\ tasks[i].handler = h
  /\ tasks[i].pc = pc

Reply(tk, key) == [tk EXCEPT !.replies = Append(@, key)]

Caught_Silent(tk, where) == [tk EXCEPT !.pc = "err", !.failed_at = where]

\* an exception caught by a handler's except clause: log, then reply
Caught(tk, where) ==
  [Reply(tk, "error_processing") EXCEPT !.pc = "err", !.failed_at = where]

\* an exception that leaves the handler
Raised(tk, where) == [tk EXCEPT !.pc = "raised", !.failed_at = where]

\* the read of the next chunk does not return
Stalled(tk) == [tk EXCEPT !.pc = "stalled"]

-----------------------------------------------------------------------------
(* start_command, help_command, reset_command *)

start_command(u) ==
  /\ Arrives(u, [Reply(NewTask("/start", u, <<>>, "", 0), "welcome") EXCEPT !.pc = "reply"])
  /\ user_context' = PutSession(user_context, u, FreshSession(now))
  /\ UNCHANGED now

help_command(u) ==
  /\ Arrives(u, [Reply(NewTask("/help", u, <<>>, "", 0), "help") EXCEPT !.pc = "reply"])
  /\ UNCHANGED <<user_context, now>>

reset_command(u) ==
  /\ Arrives(u, [Reply(NewTask("/reset", u, <<>>, "", 0), "reset") EXCEPT !.pc = "reply"])
  /\ user_context' = ResetSession(user_context, u, now)
  /\ UNCHANGED now

\* the final reply_text of a handler that has no except clause around it
reply_returns(i) ==
  /\ Suspended(i)
  /\ tasks[i].pc = "reply"
  /\ \E ok \in BOOLEAN :
       tasks' = Resumed(i, IF ok THEN [tasks[i] EXCEPT !.pc = "done"]
                                 ELSE Raised(tasks[i], "reply"))
  /\ UNCHANGED <<user_context, now, dispatched, concurrent_updates>>

\* the reply_text inside an except clause
error_reply_returns(i) ==
  /\ Suspended(i)
  /\ tasks[i].pc = "err"
  /\ \E ok \in BOOLEAN :
       tasks' = Resumed(i, [tasks[i] EXCEPT !.pc = IF ok THEN "done" ELSE "raised"])
  /\ UNCHANGED <<user_context, now, dispatched, concurrent_updates>>

\* an update that matches none of the registered handlers is dropped
unhandled_update(u, mime, size) ==
  /\ Route("document", mime) = "unhandled"
  /\ Arrives(u, NewTask("document", u, <<>>, mime, size))
  /\ UNCHANGED <<user_context, now>>

-----------------------------------------------------------------------------
(* handle_text_message *)

\* lines 115-120: create the session when absent, then stamp last_seen
TouchSession(ctx, u, t) == Touch(EnsureSession(ctx, u, t), u, t)

\* the for loop over the stream, run up to its next await: chunks without
\* content are skipped, a chunk with content is accumulated and sent as an
\* edit; when the stream is exhausted the turn is appended to the history
RECURSIVE SkipEmpty(_)
SkipEmpty(resp) ==
  IF resp # <<>> /\ Head(resp) = <<>> THEN SkipEmpty(Tail(resp)) ELSE resp

StreamStep_ChunkOnly(ctx, tk) ==
  LET rest == SkipEmpty(tk.response) IN
  IF rest = <<>>
    THEN <<[ctx EXCEPT ![tk.user_id].history =
                AppendTurn(@, tk.text, tk.full_response)],
           [tk EXCEPT !.response = <<>>, !.appended = TRUE, !.pc = "done"]>>
    ELSE <<ctx,
           [tk EXCEPT !.response = Tail(rest),
                      !.full_response = @ \o Head(rest),
                      !.edits = Append(@, [message_id |-> tk.message[1],
                                           text |-> Head(rest)]),
                      !.pc = "edit"]>>

StreamStep_StaleWrite(ctx, tk) ==
  LET rest == SkipEmpty(tk.response) IN
  IF rest = <<>>
    THEN <<[ctx EXCEPT ![tk.user_id].history =
                AppendTurn(IF tk.idle_reset THEN <<>> ELSE tk.hist0,
                           tk.text, tk.full_response)],
           [tk EXCEPT !.response = <<>>, !.appended = TRUE, !.pc = "done"]>>
    ELSE <<ctx,
           [tk EXCEPT !.response = Tail(rest),
                      !.full_response = @ \o Head(rest),
                      !.edits = Append(@, [message_id |-> tk.message[1],
                                           text |-> tk.full_response \o Head(rest)]),
                      !.pc = "edit"]>>

StreamStep(ctx, tk) ==
  LET rest == SkipEmpty(tk.response) IN
  IF rest = <<>>
    THEN <<[ctx EXCEPT ![tk.user_id].history =
                AppendTurn(@, tk.text, tk.full_response)],
           [tk EXCEPT !.response = <<>>, !.appended = TRUE, !.pc = "done"]>>
    ELSE <<ctx,
           [tk EXCEPT !.response = Tail(rest),
                      !.full_response = @ \o Head(rest),
                      !.edits = Append(@, [message_id |-> tk.message[1],
                                           text |-> tk.full_response \o Head(rest)]),
                      !.pc = "edit"]>>

\* lines 107-121: idle check, then either the reset of reset_command (and
\* its reply) or session creation, last_seen and the typing indicator
text_begin(u, x) ==
  LET tk == NewTask("text", u, x, "", 0) IN
  /\ IF IsIdle(user_context, u, now)
       THEN /\ user_context' = ResetSession(user_context, u, now)
            /\ Arrives(u, [Reply(tk, "reset") EXCEPT !.idle_reset = TRUE, !.pc = "idle_reply"])
       ELSE /\ user_context' = TouchSession(user_context, u, now)
            /\ Arrives(u, [tk EXCEPT !.pc = "typing"])
  /\ UNCHANGED now

\* reply_text of the nested reset_command returns; lines 115-121
text_idle_reply_returns(i) ==
  /\ At(i, "handle_text_message", "idle_reply")
  /\ \E ok \in BOOLEAN :
       IF ok
         THEN /\ user_context' = TouchSession(user_context, tasks[i].user_id, now)
              /\ tasks' = Resumed(i, [tasks[i] EXCEPT !.pc = "typing"])
         ELSE /\ tasks' = Resumed(i, Raised(tasks[i], "idle_reply"))
              /\ UNCHANGED user_context
  /\ UNCHANGED <<now, dispatched, concurrent_updates>>

\* send_chat_action returns; lines 122-150: the prompt is assembled, the
\* image consumed and the completion request submitted
text_typing_returns(i) ==
  /\ At(i, "handle_text_message", "typing")
  /\ \E ok \in BOOLEAN :
       IF ok
         THEN LET u == tasks[i].user_id IN
              /\ tasks' = Resumed(i, [tasks[i] EXCEPT
                             !.messages = BuildMessages(user_context[u], tasks[i].text),
                             !.pc = "submit"])
              /\ user_context' = [user_context EXCEPT ![u] = ConsumeImage(@)]
         ELSE /\ tasks' = Resumed(i, Raised(tasks[i], "typing"))
              /\ UNCHANGED user_context
  /\ UNCHANGED <<now, dispatched, concurrent_updates>>

\* asyncio.to_thread(create) returns a stream or raises; lines 152-153
text_submit_returns(i) ==
  /\ At(i, "handle_text_message", "submit")
  /\ \/ \E r \in Streams :
          tasks' = Resumed(i, [Reply(tasks[i], "...") EXCEPT
                                 !.stream = r, !.response = r, !.pc = "placeholder"])
     \/ tasks' = Resumed(i, Caught(tasks[i], "submit"))
  /\ UNCHANGED <<user_context, now, dispatched, concurrent_updates>>

\* reply_text("...") returns the placeholder message or raises; the
\* stream loop starts
text_placeholder_returns(i) ==
  /\ At(i, "handle_text_message", "placeholder")
  /\ \/ \E m \in MessageIds :
          LET tk == [tasks[i] EXCEPT !.message = Some(m)] IN
          \/ /\ user_context' = StreamStep(user_context, tk)[1]
             /\ tasks' = Resumed(i, StreamStep(user_context, tk)[2])
          \/ /\ tasks' = Resumed(i, Caught(tk, "stream"))
             /\ UNCHANGED user_context
          \/ /\ tasks' = Resumed(i, Stalled(tk))
             /\ UNCHANGED user_context
     \/ /\ tasks' = Resumed(i, Caught(tasks[i], "placeholder"))
        /\ UNCHANGED user_context
  /\ UNCHANGED <<now, dispatched, concurrent_updates>>

\* edit_message_text returns; the stream loop goes on
text_edit_returns(i) ==
  /\ At(i, "handle_text_message", "edit")
  /\ \/ /\ user_context' = StreamStep(user_context, tasks[i])[1]
        /\ tasks' = Resumed(i, StreamStep(user_context, tasks[i])[2])
     \/ /\ tasks' = Resumed(i, Caught(tasks[i], "edit"))
        /\ UNCHANGED user_context
     \/ /\ tasks' = Resumed(i, Caught(tasks[i], "stream"))
        /\ UNCHANGED user_context
     \/ /\ tasks' = Resumed(i, Stalled(tasks[i]))
        /\ UNCHANGED user_context
  /\ UNCHANGED <<now, dispatched, concurrent_updates>>

-----------------------------------------------------------------------------
(* handle_document_message *)

\* lines 171-184: the two rejections, else get_file is called
document_begin(u, mime, size) ==
  LET tk == NewTask("document", u, <<>>, mime, size) IN
  /\ Route("document", mime) = "handle_document_message"
  /\ Arrives(u, IF mime # "application/pdf"
                  THEN [Reply(tk, "unsupported_file") EXCEPT !.pc = "reply"]
                ELSE IF PdfTooLarge(size)
                  THEN [Reply(tk, "pdf_too_large") EXCEPT !.pc = "reply"]
                ELSE [tk EXCEPT !.pc = "get_file"])
  /\ UNCHANGED <<user_context, now>>

get_file_returns_Uncaught(i) ==
  /\ Suspended(i)
  /\ tasks[i].pc = "get_file"
  /\ \E ok \in BOOLEAN :
       tasks' = Resumed(i, IF ok THEN [tasks[i] EXCEPT !.pc = "download"]
                                 ELSE Raised(tasks[i], "get_file"))
  /\ UNCHANGED <<user_context, now, dispatched, concurrent_updates>>

\* get_file returns; download_as_bytearray is called
get_file_returns(i) ==
  /\ Suspended(i)
  /\ tasks[i].pc = "get_file"
  /\ \E ok \in BOOLEAN :
       tasks' = Resumed(i, IF ok THEN [tasks[i] EXCEPT !.pc = "download"]
                                 ELSE Caught(tasks[i], "get_file"))
  /\ UNCHANGED <<user_context, now, dispatched, concurrent_updates>>

\* the download returns; lines 186-194: text extraction, store, reply
document_download_returns(i) ==
  /\ At(i, "handle_document_message", "download")
  /\ \/ \E pdf \in Pdfs :
          LET u == tasks[i].user_id
              ctx == EnsureSession(user_context, u, now) IN
          /\ user_context' = [ctx EXCEPT ![u] = StorePdf(@, ExtractText(pdf))]
          /\ tasks' = Resumed(i, [Reply(tasks[i], "pdf_received") EXCEPT
                                   !.stored = TRUE, !.pc = "ack",
                                   !.att1 = <<user_context'[u].pdf_text,
                                              user_context'[u].image_data>>])
     \/ /\ tasks' = Resumed(i, Caught(tasks[i], "download"))
        /\ UNCHANGED user_context
     \/ /\ tasks' = Resumed(i, Caught(tasks[i], "decode"))
        /\ UNCHANGED user_context
  /\ UNCHANGED <<now, dispatched, concurrent_updates>>

\* the acknowledging reply_text, inside the try block, returns
ack_returns(i) ==
  /\ Suspended(i)
  /\ tasks[i].pc = "ack"
  /\ \E ok \in BOOLEAN :
       tasks' = Resumed(i, IF ok THEN [tasks[i] EXCEPT !.pc = "done"] ELSE Caught(tasks[i], "ack"))
  /\ UNCHANGED <<user_context, now, dispatched, concurrent_updates>>

-----------------------------------------------------------------------------
(* handle_photo_message *)

photo_begin_IdleChecked(u, size) ==
  LET tk == NewTask("photo", u, <<>>, "", size) IN
  /\ Arrives(u, IF ImageTooLarge(size)
                  THEN [Reply(tk, "image_too_large") EXCEPT !.pc = "reply"]
                ELSE [tk EXCEPT !.pc = "get_file"])
  /\ user_context' = IF IsIdle(user_context, u, now)
                        THEN ResetSession(user_context, u, now)
                        ELSE user_context
  /\ UNCHANGED now

\* lines 201-210
photo_begin(u, size) ==
  LET tk == NewTask("photo", u, <<>>, "", size) IN
  /\ Arrives(u, IF ImageTooLarge(size)
                  THEN [Reply(tk, "image_too_large") EXCEPT !.pc = "reply"]
                ELSE [tk EXCEPT !.pc = "get_file"])
  /\ UNCHANGED <<user_context, now>>

\* the download returns; lines 212-217
photo_download_returns(i) ==
  /\ At(i, "handle_photo_message", "download")
  /\ \/ \E bytes \in Photos :
          LET u == tasks[i].user_id
              ctx == EnsureSession(user_context, u, now) IN
          /\ user_context' = [ctx EXCEPT ![u] = StoreImage(@, b64encode(bytes))]
          /\ tasks' = Resumed(i, [Reply(tasks[i], "image_received") EXCEPT
                                   !.stored = TRUE, !.pc = "ack",
                                   !.att1 = <<user_context'[u].pdf_text,
                                              user_context'[u].image_data>>])
     \/ /\ tasks' = Resumed(i, Caught(tasks[i], "download"))
        /\ UNCHANGED user_context
  /\ UNCHANGED <<now, dispatched, concurrent_updates>>

-----------------------------------------------------------------------------
(* The event loop *)

\* user_context = {}
Start_user_context == [u \in {} |-> FreshSession(0)]

Start ==
  /\ user_context = Start_user_context
  /\ now = 0
  /\ tasks = << >>
  /\ dispatched = 0

Next ==
  \/ \E u \in Users :
       \/ start_command(u)
       \/ help_command(u)
       \/ reset_command(u)
       \/ \E x \in Texts : text_begin(u, x)
       \/ \E mime \in MimeTypes, size \in DocSizes :
            \/ document_begin(u, mime, size)
            \/ unhandled_update(u, mime, size)
       \/ \E size \in PhotoSizes : photo_begin(u, size)
  \/ \E i \in 1..MaxEvents :
       \/ text_idle_reply_returns(i)
       \/ text_typing_returns(i)
       \/ text_submit_returns(i)
       \/ text_placeholder_returns(i)
       \/ text_edit_returns(i)
       \/ get_file_returns(i)
       \/ document_download_returns(i)
       \/ photo_download_returns(i)
       \/ ack_returns(i)
       \/ reply_returns(i)
       \/ error_reply_returns(i)
  \/ Tick

\* handlers as concurrent tasks of the event loop, interleaved at awaits: an
\* update may arrive while earlier handlers are suspended
Init == Start /\ concurrent_updates = TRUE

Spec == Init /\ [][Next]_vars

\* update processing as main configures it: Application.builder() without
\* concurrent_updates, so an update is taken only when the handler of the
\* previous one has returned
InitSeq == Start /\ concurrent_updates = FALSE

SeqSpec == InitSeq /\ [][Next]_vars

\* the prompt assembly applied to long documents: the session of a user
\* whose document of text d was ingested, before the last update of the
\* exploration is taken
InitLongDoc ==
  /\ \E d \in DocTexts :
       user_context = PutSession(Start_user_context, 101, StorePdf(FreshSession(0), d))
  /\ now = 0
  /\ tasks = << >>
  /\ dispatched = MaxEvents - 1
  /\ concurrent_updates = FALSE

LongDocSpec == InitLongDoc /\ [][Next]_vars

-----------------------------------------------------------------------------
(* Vocabulary of the properties *)

Range(f) == { f[x] : x \in DOMAIN f }

Running == Range(tasks)

TextTurns == { tk \in Running : tk.handler = "handle_text_message" }

\* the prompt of the turn has been assembled
Prompted(tk) == tk.messages # <<>>

Succeeded(tk) == tk.pc = "done" /\ tk.failed_at = ""

Attachment(u) ==
  IF u \in DOMAIN user_context
    THEN <<user_context[u].pdf_text, user_context[u].image_data>>
    ELSE <<None, None>>

\* the history a turn starts from: what the session held when the message
\* arrived, or nothing when the idle check replaced the session
BaseHistory(tk) == IF tk.idle_reset THEN <<>> ELSE tk.hist0

Embeds(messages, image_data) ==
  { k \in 1..Len(messages) : messages[k].image = Some(ImageUrl(image_data)) }

-----------------------------------------------------------------------------
(* C1: in every reachable state no session has both pdf_text and image_data  *)
(* set; a successful document ingestion leaves pdf_text set and image_data   *)
(* cleared, a successful photo ingestion leaves image_data set and pdf_text  *)
(* cleared, under any interleaving of the handlers.                          *)

C1_AttachmentExclusive ==
  /\ \A u \in DOMAIN user_context :
       ~(IsSet(user_context[u].pdf_text) /\ IsSet(user_context[u].image_data))
  /\ \A tk \in Running :
       tk.stored =>
         /\ tk.handler = "handle_document_message" =>
              IsSet(tk.att1[1]) /\ tk.att1[2] = None
         /\ tk.handler = "handle_photo_message" =>
              IsSet(tk.att1[2]) /\ tk.att1[1] = None

\* a photo is stored over a pending document while another handler of the
\* same user is suspended
C1_Witness ==
  \E tk \in Running, other \in Running :
    /\ tk.handler = "handle_photo_message" /\ tk.pc = "ack"
    /\ other # tk /\ other.user_id = tk.user_id /\ ~Finished(other)
    /\ IsSet(tk.att0[1])
    /\ user_context[tk.user_id].pdf_text = None
    /\ IsSet(user_context[tk.user_id].image_data)

-----------------------------------------------------------------------------
(* C2 as stated: a text turn that completes successfully leaves the history *)
(* equal to the history from before the turn followed by the user entry and *)
(* the assistant entry, nothing else added, removed or changed.             *)

C2_Original ==
  \A tk \in TextTurns :
    Succeeded(tk) =>
      user_context[tk.user_id].history =
        tk.hist0 \o << Msg("user", tk.text, None),
                       Msg("assistant", Concat(tk.stream), None) >>

(* C2 amended: the same, except that a turn whose message arrives more than *)
(* 10 minutes after last_seen starts from the empty history of the session  *)
(* that replaced the idle one.                                              *)

C2_TurnAppendsTwo ==
  \A tk \in TextTurns :
    Succeeded(tk) =>
      user_context[tk.user_id].history =
        BaseHistory(tk) \o << Msg("user", tk.text, None),
                              Msg("assistant", Concat(tk.stream), None) >>

C2_Witness ==
  \E tk \in TextTurns :
    Succeeded(tk) /\ tk.hist0 # <<>> /\ ~tk.idle_reset /\ Len(tk.edits) = 2

-----------------------------------------------------------------------------
(* C3 as stated: a text turn that fails at the completion request, at the   *)
(* placeholder or at a streamed edit leaves the history as it was before    *)
(* the turn, and the error_processing notice is sent.                       *)

FailedInTurn(tk) == tk.failed_at \in {"submit", "placeholder", "edit"}

NoticeSent(tk, key) == \E k \in 1..Len(tk.replies) : tk.replies[k] = key

C3_Original ==
  \A tk \in TextTurns :
    FailedInTurn(tk) =>
      /\ user_context[tk.user_id].history = tk.hist0
      /\ NoticeSent(tk, "error_processing")

(* C3 amended: the history is what the turn started from (the history from  *)
(* before the turn, or the empty history when the idle check replaced the   *)
(* session), no entry of the turn is recorded, and the notice is sent.      *)

C3_FailedTurnKeepsHistory ==
  \A tk \in TextTurns :
    FailedInTurn(tk) =>
      /\ user_context[tk.user_id].history = BaseHistory(tk)
      /\ ~tk.appended
      /\ NoticeSent(tk, "error_processing")

\* a turn fails at an edit, after part of the reply was accumulated
C3_Witness ==
  \E tk \in TextTurns :
    /\ tk.failed_at = "edit" /\ tk.pc = "done"
    /\ tk.hist0 # <<>> /\ tk.full_response # <<>>

-----------------------------------------------------------------------------
(* C4 as stated: after /reset the user has a session with empty history and *)
(* no pending attachment, also when the user had no session before.         *)

ResetTasks == { tk \in Running : tk.handler = "reset_command" }

IsFresh(u) ==
  /\ u \in DOMAIN user_context
  /\ user_context[u].history = <<>>
  /\ user_context[u].pdf_text = None
  /\ user_context[u].image_data = None

C4_Original == \A tk \in ResetTasks : IsFresh(tk.user_id)

(* C4 amended: after /reset a user who had a session has one with empty     *)
(* history and no pending attachment; a user who had none still has none.   *)

C4_ResetClears ==
  \A tk \in ResetTasks :
    IF tk.had_session THEN IsFresh(tk.user_id)
                      ELSE tk.user_id \notin DOMAIN user_context

C4_Witness ==
  \E tk \in ResetTasks :
    /\ tk.hist0 # <<>> /\ IsSet(tk.att0[1])
    /\ IsFresh(tk.user_id) /\ tk.pc = "done"

-----------------------------------------------------------------------------
(* C5: a text message arriving more than 10 minutes after last_seen gets a  *)
(* fresh session before it is processed, and its prompt is the system       *)
(* instruction and the new text only; a message arriving at or within 10    *)
(* minutes does not reset the session: its prompt carries the history and   *)
(* the attachment of the session.                                           *)

ArrivedIdle(tk) ==
  tk.had_session /\ tk.arrived - tk.seen0 > CONTEXT_TIMEOUT_MINUTES

C5_IdleReset ==
  \A tk \in TextTurns :
    /\ tk.idle_reset <=> ArrivedIdle(tk)
    /\ tk.pc = "idle_reply" => user_context[tk.user_id] = FreshSession(tk.arrived)
    /\ Prompted(tk) =>
         IF ArrivedIdle(tk)
           THEN tk.messages = << SystemInstruction, Msg("user", tk.text, None) >>
           ELSE /\ SubSeq(tk.messages, 2, Len(tk.hist0) + 1) = tk.hist0
                /\ Truthy(tk.att0[2]) => Embeds(tk.messages, tk.att0[2][1]) # {}
                /\ Truthy(tk.att0[1]) =>
                     \E k \in 1..Len(tk.messages) :
                       tk.messages[k] = Msg("system", PdfContext(tk.att0[1][1]), None)

\* an idle session with history and a document is replaced, and the prompt
\* of the message is assembled
C5_Witness ==
  \E tk \in TextTurns :
    /\ ArrivedIdle(tk) /\ Prompted(tk)
    /\ tk.hist0 # <<>> /\ Truthy(tk.att0[1])

-----------------------------------------------------------------------------
(* C6 as stated: after a text, document or photo event is handled for a     *)
(* user, the session's last_seen is no earlier than the arrival of the      *)
(* event.                                                                   *)

C6_Original ==
  \A tk \in Running :
    ( /\ tk.kind \in {"text", "document", "photo"}
      /\ tk.handler # "unhandled"
      /\ tk.pc = "done"
      /\ tk.user_id \in DOMAIN user_context )
      => user_context[tk.user_id].last_seen >= tk.arrived

-----------------------------------------------------------------------------
(* C7 as stated: a text message that finds an accepted image pending gets a *)
(* prompt that embeds that image exactly once, and the pending attachment   *)
(* is empty afterwards.                                                     *)

C7_Original ==
  \A tk \in TextTurns :
    (Prompted(tk) /\ IsSet(tk.att0[2])) =>
      /\ Cardinality(Embeds(tk.messages, tk.att0[2][1])) = 1
      /\ Attachment(tk.user_id) = <<None, None>>

(* C7 amended: the image is embedded, exactly once, by the next text        *)
(* message whose prompt is assembled while the image is still pending, that *)
(* is unless the idle check of that message (or a /start, /reset or         *)
(* document before it) replaced it; the pending attachment is empty after   *)
(* the prompt is assembled, a prompt assembled with no image pending embeds *)
(* none, and no history entry carries an image.                             *)

C7_ImageUsedOnce ==
  /\ \A tk \in TextTurns :
       Prompted(tk) =>
         /\ IF IsSet(tk.att0[2]) /\ ~tk.idle_reset
              THEN /\ Embeds(tk.messages, tk.att0[2][1]) = {Len(tk.messages)}
                   /\ tk.messages[Len(tk.messages)].content = tk.text
              ELSE \A k \in 1..Len(tk.messages) : tk.messages[k].image = None
         /\ \A k \in 1..(Len(tk.messages) - 1) : tk.messages[k].image = None
         /\ user_context[tk.user_id].image_data = None
         /\ IsSet(tk.att0[2]) => Attachment(tk.user_id) = <<None, None>>
  /\ \A u \in DOMAIN user_context :
       \A k \in 1..Len(user_context[u].history) :
         user_context[u].history[k].image = None

\* a turn that embedded the image has completed
C7_Witness ==
  \E tk \in TextTurns :
    /\ Succeeded(tk) /\ IsSet(tk.att0[2])
    /\ Embeds(tk.messages, tk.att0[2][1]) # {}
    /\ Attachment(tk.user_id) = <<None, None>>

-----------------------------------------------------------------------------
(* C8 as stated: every text turn that finds the extracted text of an        *)
(* accepted PDF stored (the session not having been reset) has a prompt     *)
(* with the document-context message built from that text, and the text     *)
(* stays stored.                                                            *)

DocMessages(tk) ==
  { k \in 1..Len(tk.messages) :
      /\ tk.messages[k].role = "system"
      /\ Len(tk.messages[k].content) > 0
      /\ tk.messages[k].content[1] = "Use the following content from a PDF to answer: " }

C8_Original ==
  \A tk \in TextTurns :
    (Prompted(tk) /\ IsSet(tk.att0[1]) /\ ~tk.idle_reset) =>
      /\ DocMessages(tk) # {}
      /\ user_context[tk.user_id].pdf_text = tk.att0[1]

(* C8 amended: the same for a PDF whose extracted text is not empty; a PDF  *)
(* without text is stored as the empty string and adds nothing to a prompt. *)

C8_DocumentPersists ==
  \A tk \in TextTurns :
    (Prompted(tk) /\ IsSet(tk.att0[1]) /\ ~tk.idle_reset) =>
      /\ user_context[tk.user_id].pdf_text = tk.att0[1]
      /\ IF tk.att0[1][1] # <<>>
           THEN /\ DocMessages(tk) = {Len(tk.messages) - 1}
                /\ tk.messages[Len(tk.messages) - 1].content =
                     <<"Use the following content from a PDF to answer: ">>
                        \o tk.att0[1][1]
           ELSE DocMessages(tk) = {}

\* a second turn uses the document that an earlier turn already used
C8_Witness ==
  \E tk \in TextTurns :
    /\ Succeeded(tk) /\ DocMessages(tk) # {}
    /\ tk.hist0 # <<>>
    /\ user_context[tk.user_id].pdf_text = tk.att0[1]

-----------------------------------------------------------------------------
(* C9 as stated: any document declared larger than 15 MB is rejected with   *)
(* pdf_too_large and leaves the pending attachment unchanged; a document of *)
(* exactly 15 MB is not rejected for size.                                  *)

Documents == { tk \in Running : tk.kind = "document" }

C9_Original ==
  \A tk \in Documents :
    /\ tk.file_size > MAX_PDF_SIZE =>
         /\ NoticeSent(tk, "pdf_too_large")
         /\ Attachment(tk.user_id) = tk.att0
    /\ tk.file_size = MAX_PDF_SIZE => ~NoticeSent(tk, "pdf_too_large")

(* C9 amended: the same for any document of MIME type application/pdf.      *)

C9_OversizePdfRejected ==
  \A tk \in Documents :
    tk.mime_type = "application/pdf" =>
      /\ tk.file_size > MAX_PDF_SIZE =>
           /\ tk.replies = <<"pdf_too_large">>
           /\ ~tk.stored
           /\ Attachment(tk.user_id) = tk.att0
           /\ tk.had_session <=> tk.user_id \in DOMAIN user_context
      /\ tk.file_size = MAX_PDF_SIZE => ~NoticeSent(tk, "pdf_too_large")

\* an oversize PDF is rejected while an image is pending
C9_Witness ==
  \E tk \in Documents :
    /\ tk.mime_type = "application/pdf" /\ tk.file_size > MAX_PDF_SIZE
    /\ tk.pc = "done" /\ NoticeSent(tk, "pdf_too_large")
    /\ IsSet(tk.att0[2]) /\ Attachment(tk.user_id) = tk.att0

-----------------------------------------------------------------------------
(* C10 as stated: through the handlers registered in main, a document whose *)
(* MIME type is not application/pdf is answered with unsupported_file and   *)
(* the session is left unchanged.                                           *)

C10_Original ==
  \A tk \in Documents :
    (tk.mime_type # "application/pdf" /\ Finished(tk)) =>
      /\ NoticeSent(tk, "unsupported_file")
      /\ Attachment(tk.user_id) = tk.att0

-----------------------------------------------------------------------------
(* C11: a document or photo ingestion that fails at file retrieval, at the  *)
(* download or at PDF decoding stores nothing: pdf_text, image_data and     *)
(* history are what they were before the event (no session is created       *)
(* either), and the error_processing notice is sent.                        *)

Ingestions ==
  { tk \in Running :
      tk.handler \in {"handle_document_message", "handle_photo_message"} }

IngestFailed(tk) == tk.failed_at \in {"get_file", "download", "decode"}

C11_FailedIngestStoresNothing ==
  \A tk \in Ingestions :
    IngestFailed(tk) =>
      /\ ~tk.stored
      /\ Attachment(tk.user_id) = tk.att0
      /\ HistoryOf(user_context, tk.user_id) = tk.hist0
      /\ tk.had_session <=> tk.user_id \in DOMAIN user_context
      /\ NoticeSent(tk, "error_processing")

\* decoding of a PDF fails while an image is pending and the history is
\* not empty
C11_Witness ==
  \E tk \in Ingestions :
    /\ tk.failed_at = "decode" /\ tk.pc = "done"
    /\ tk.hist0 # <<>> /\ IsSet(tk.att0[2])
    /\ Attachment(tk.user_id) = tk.att0

-----------------------------------------------------------------------------
(* C12 as stated: no error propagates past a handler; wherever a transport  *)
(* call, the completion call or decoding fails, the handler ends normally   *)
(* after sending the error_processing notice, also when the typing          *)
(* indicator or the idle-reset confirmation fails.                          *)

Handled == { tk \in Running : tk.handler # "unhandled" }

C12_Original ==
  \A tk \in Handled :
    /\ tk.pc # "raised"
    /\ (tk.failed_at # "" /\ tk.pc = "done") => NoticeSent(tk, "error_processing")

-----------------------------------------------------------------------------
(* C13 as stated: a completion call that hangs, before the first chunk or   *)
(* in the middle of the stream, blocks only the handler that issued it:     *)
(* while it hangs, a handler for an update of another user can start, and   *)
(* one that has started can go on to its end.                               *)

\* the completion request is outstanding, or a read of the stream is
Hung(tk) == tk.handler = "handle_text_message" /\ tk.pc \in {"submit", "stalled"}

\* the exploration still has an update of user v to deliver
Deliverable(v) ==
  /\ dispatched < (IF concurrent_updates THEN MaxTasks ELSE MaxEvents)
  /\ \A w \in Users : w < v => w \in KnownUsers

C13_Original ==
  \A tk \in Running :
    Hung(tk) =>
      \A v \in Users \ {tk.user_id} :
        /\ Deliverable(v) => ENABLED help_command(v)
        /\ \A j \in 1..Len(tasks) :
             (tasks[j].user_id = v /\ tasks[j].pc = "reply") => ENABLED reply_returns(j)

-----------------------------------------------------------------------------
(* C14: a document whose extracted text is longer than 4000 characters      *)
(* contributes exactly its first 4000 characters, in order, to the          *)
(* document-context message of the prompt, never more; a shorter non-empty  *)
(* text contributes all of its characters.                                  *)

C14_ContextTruncated ==
  \A tk \in TextTurns :
    (Prompted(tk) /\ Truthy(tk.att0[1]) /\ ~Truthy(tk.att0[2]) /\ ~tk.idle_reset) =>
      LET text == tk.att0[1][1]
          kept == IF Len(text) > PDF_CONTEXT_CHARS THEN PDF_CONTEXT_CHARS ELSE Len(text)
      IN /\ Cardinality(DocMessages(tk)) = 1
         /\ \A k \in DocMessages(tk) :
              /\ Len(tk.messages[k].content) = kept + 1
              /\ \A c \in 1..kept : tk.messages[k].content[c + 1] = text[c]

\* the prompt for a document of 4002 characters holds 4000 of them
C14_Witness ==
  \E tk \in TextTurns :
    /\ Prompted(tk) /\ Truthy(tk.att0[1]) /\ ~tk.idle_reset
    /\ Len(tk.att0[1][1]) = PDF_CONTEXT_CHARS + 2
    /\ \E k \in DocMessages(tk) : Len(tk.messages[k].content) = PDF_CONTEXT_CHARS + 1

-----------------------------------------------------------------------------
(* C15 as stated: when two text turns of one user are interleaved at their  *)
(* awaits, the race drops or duplicates history entries: after both turns   *)
(* completed successfully the history does not hold each turn's user and    *)
(* assistant entries exactly once.                                          *)

Turn(prompt, reply) == << Msg("user", prompt, None), Msg("assistant", reply, None) >>

\* where the history h holds the two entries of a turn, adjacent
Recorded(h, prompt, reply) ==
  { k \in 1..(Len(h) - 1) : SubSeq(h, k, k + 1) = Turn(prompt, reply) }

\* the turn tk and the turns recorded while it was suspended
Overlapping(tk) == Append(tk.overlap, <<tk.text, tk.full_response>>)

EachOnce(tk) ==
  LET turns == Overlapping(tk)
      h == HistoryOf(user_context, tk.user_id)
  IN \A n \in 1..Len(turns) :
       Cardinality(Recorded(h, turns[n][1], turns[n][2])) =
         Cardinality({ m \in 1..Len(turns) : turns[m] = turns[n] })

Completing(u) ==
  { tk \in Range(tasks') \ Range(tasks) : tk.user_id = u /\ tk.appended }

HistoryStep ==
  /\ \A u \in DOMAIN user_context' :
       LET h == HistoryOf(user_context, u)
           g == user_context'[u].history
       IN \/ g = h
          \/ dispatched' = dispatched + 1 /\ user_context'[u] = FreshSession(now)
          \/ \E tk \in Completing(u) : g = h \o Turn(tk.text, Concat(tk.stream))
  /\ \A tk \in Range(tasks') \ Range(tasks) :
       (tk.handler = "handle_text_message" /\ tk.pc = "done" /\ tk.failed_at = "") =>
         /\ tk.appended
         /\ user_context'[tk.user_id].history =
              HistoryOf(user_context, tk.user_id) \o Turn(tk.text, Concat(tk.stream))

-----------------------------------------------------------------------------
(* C16: within one turn the placeholder is sent before any edit, every edit *)
(* targets the placeholder message, the edits are made one after another in *)
(* fragment order, the text of each edit is the concatenation of all        *)
(* non-empty fragments received so far (a proper extension of the previous  *)
(* edit's text), and the history entries of the turn are appended only      *)
(* after the last edit has completed.                                       *)

IsFragment(chunk) == chunk # <<>>

\* the non-empty fragments of a stream, in order
Fragments(stream) == SelectSeq(stream, IsFragment)

\* the stream read so far
Received(tk) == SubSeq(tk.stream, 1, Len(tk.stream) - Len(tk.response))

C16_EditsInOrder ==
  \A tk \in TextTurns :
    /\ tk.pc \in {"typing", "idle_reply", "submit", "placeholder"} =>
         tk.edits = <<>> /\ tk.message = None
    /\ tk.edits # <<>> =>
         /\ tk.replies[Len(tk.replies) - (IF tk.failed_at = "" THEN 0 ELSE 1)] = "..."
         /\ IsSet(tk.message)
    /\ \A k \in 1..Len(tk.edits) :
         /\ tk.edits[k].message_id = tk.message[1]
         /\ tk.edits[k].text = Concat(SubSeq(Fragments(tk.stream), 1, k))
         /\ k > 1 =>
              /\ Len(tk.edits[k].text) > Len(tk.edits[k - 1].text)
              /\ SubSeq(tk.edits[k].text, 1, Len(tk.edits[k - 1].text)) = tk.edits[k - 1].text
    /\ Len(tk.edits) = Len(Fragments(Received(tk)))
    /\ tk.pc = "edit" =>
         /\ ~tk.appended
         /\ user_context[tk.user_id].history = BaseHistory(tk)
    /\ tk.appended =>
         /\ tk.pc = "done" /\ tk.response = <<>>
         /\ Len(tk.edits) = Len(Fragments(tk.stream))
         /\ tk.full_response = tk.edits[Len(tk.edits)].text

\* the second edit of a turn is outstanding
C16_Witness ==
  \E tk \in TextTurns :
    /\ tk.pc = "edit" /\ Len(tk.edits) = 2
    /\ tk.edits[1].text = <<"a">> /\ tk.edits[2].text = <<"a", "b">>
    /\ tk.hist0 # <<>>

-----------------------------------------------------------------------------
(* C17: the idle check is made in text handling only. Handling a document   *)
(* or a photo never resets the session, however long the user has been      *)
(* idle: on an existing session it leaves the history (and last_seen)       *)
(* unchanged and changes at most pdf_text and image_data, and those only    *)
(* when it stores the attachment.                                           *)

C17_IngestNeverResets ==
  \A tk \in Ingestions :
    tk.had_session =>
      /\ tk.user_id \in DOMAIN user_context
      /\ user_context[tk.user_id].history = tk.hist0
      /\ user_context[tk.user_id].last_seen = tk.seen0
      /\ ~tk.stored => Attachment(tk.user_id) = tk.att0

\* a photo is stored for a user who has been idle for more than 10 minutes
\* and has a history
C17_Witness ==
  \E tk \in Ingestions :
    /\ tk.handler = "handle_photo_message" /\ tk.pc = "done" /\ tk.stored
    /\ ArrivedIdle(tk) /\ tk.hist0 # <<>>
    /\ user_context[tk.user_id].history = tk.hist0
    /\ IsSet(user_context[tk.user_id].image_data)

-----------------------------------------------------------------------------
(* C18: in every reachable state, under any interleaving of the handlers of *)
(* a user, every session's history has even length and alternates user,     *)
(* assistant, user, assistant, starting with a user entry: no state shows a *)
(* user entry without its assistant reply.                                  *)

C18_HistoryAlternates ==
  \A u \in DOMAIN user_context :
    LET h == user_context[u].history IN
    /\ Len(h) % 2 = 0
    /\ \A k \in 1..Len(h) :
         h[k].role = IF k % 2 = 1 THEN "user" ELSE "assistant"

\* a turn is recorded while another handler of the same user is in the
\* middle of its stream
C18_Witness ==
  \E tk \in TextTurns :
    /\ tk.pc = "edit" /\ tk.overlap # <<>>
    /\ Len(user_context[tk.user_id].history) = 2

-----------------------------------------------------------------------------
(* C19 as stated: a pending image is cleared only by being used; a text     *)
(* turn that fails (the completion request or the streaming raises) leaves  *)
(* the image pending, so that the next text turn of the user embeds it.     *)

FailedAfterPrompt(tk) == tk.failed_at \in {"submit", "placeholder", "stream", "edit"}

C19_Original ==
  \A tk \in TextTurns :
    (FailedAfterPrompt(tk) /\ Truthy(tk.att0[2]) /\ ~tk.idle_reset) =>
      user_context[tk.user_id].image_data = tk.att0[2]

-----------------------------------------------------------------------------
(* C20 as stated: once /start or /reset has replaced a user's session, a    *)
(* turn that was in flight when the reset was handled does not add its      *)
(* entries to the fresh session: the history stays empty until a text       *)
(* message received after the reset completes its turn.                     *)

====
